---- MODULE Spec2Model ----
(***************************************************************************)
(* Model of sketch/test_bread_board/generate_clean_wav.py: the A-Law       *)
(* sample compressor linear_to_alaw, the header builder                    *)
(* create_alaw_wav_header, and the tail of the two generation functions    *)
(* (create_clean_alaw_wav, create_speech_like_alaw_wav) from the           *)
(* per-sample encoding loop to the write of the output file.               *)
(*                                                                         *)
(* Three specifications share the variables:                               *)
(*   Spec     one generation call, from the int16 sample array onwards     *)
(*   SpecEnc  one call of linear_to_alaw on an arbitrary integer           *)
(*   SpecHdr  one call of create_alaw_wav_header on arbitrary arguments    *)
(***************************************************************************)
EXTENDS Integers, Sequences, FiniteSets

VARIABLES
    pc,           \* position of the running call
    audio_16bit,  \* the int16 sample array fed to the encoding loop
    idx,          \* position of the for-loop iterator in audio_16bit
    sample,       \* loop variable / argument of linear_to_alaw
    alaw_sample,  \* value returned by linear_to_alaw
    alaw_data,    \* the payload bytearray
    sample_rate,  \* argument of create_alaw_wav_header
    num_samples,  \* argument of create_alaw_wav_header
    header,       \* the bytearray returned by create_alaw_wav_header
    disk0,        \* what the destination path held before the call
    disk,         \* what the destination path holds now
    f             \* the file handle of the with-block

vars == <<pc, audio_16bit, idx, sample, alaw_sample, alaw_data,
          sample_rate, num_samples, header, disk0, disk, f>>

(***************************************************************************)
(* Bounds of the model.                                                    *)
(***************************************************************************)
\* longest sample stream enumerated over SampleValues
MaxSamples == 3
\* length of the long all-zero stream (the end-to-end scenario)
ScenarioLen == 2000
\* how far beyond the int16 range the encoder's argument is drawn
MaxOver == 2
\* payload lengths 0..MaxLen are given to the header builder, next to the
\* byte-boundary lengths of BoundaryLens
MaxLen == 4

(***************************************************************************)
(* Python's integer operators on non-negative operands.                    *)
(***************************************************************************)
RECURSIVE Pow2(_)
Pow2(k) == IF k = 0 THEN 1 ELSE 2 * Pow2(k - 1)

\* a >> k
Shr(a, k) == a \div Pow2(k)

\* a << k
Shl(a, k) == a * Pow2(k)

RECURSIVE BitOr(_, _)
BitOr(a, b) ==
    IF a = 0 THEN b
    ELSE IF b = 0 THEN a
    ELSE (IF a % 2 = 1 \/ b % 2 = 1 THEN 1 ELSE 0)
         + 2 * BitOr(a \div 2, b \div 2)

RECURSIVE BitAnd(_, _)
BitAnd(a, b) ==
    IF a = 0 \/ b = 0 THEN 0
    ELSE (IF a % 2 = 1 /\ b % 2 = 1 THEN 1 ELSE 0)
         + 2 * BitAnd(a \div 2, b \div 2)

RECURSIVE BitXor(_, _)
BitXor(a, b) ==
    IF a = 0 THEN b
    ELSE IF b = 0 THEN a
    ELSE (IF a % 2 # b % 2 THEN 1 ELSE 0)
         + 2 * BitXor(a \div 2, b \div 2)

Min(a, b) == IF a < b THEN a ELSE b
Max(a, b) == IF a > b THEN a ELSE b

(***************************************************************************)
(* linear_to_alaw                                                          *)
(***************************************************************************)
\* sample = max(-32768, min(32767, int(sample)))
clamp(s) == Max(-32768, Min(32767, s))

sign_gt(s) == IF s > 0 THEN 0 ELSE 128
\* sign = 0 if sample >= 0 else 0x80      (s is the clamped sample)
sign(s) == IF s >= 0 THEN 0 ELSE 128

magnitude_ones(s) == IF s < 0 THEN (-s) - 1 ELSE s
\* if sample < 0: sample = -sample
magnitude(s) == IF s < 0 THEN -s ELSE s

seg_off(m) ==
    IF m >= 16318 THEN 7
    ELSE IF m >= 8159 THEN 6
    ELSE IF m >= 4079 THEN 5
    ELSE IF m >= 2039 THEN 4
    ELSE IF m >= 1020 THEN 3
    ELSE IF m >= 509 THEN 2
    ELSE IF m >= 254 THEN 1
    ELSE 0
\* the elif cascade below the overflow test (m is the magnitude, m < 32635)
seg(m) ==
    IF m >= 16318 THEN 7
    ELSE IF m >= 8159 THEN 6
    ELSE IF m >= 4079 THEN 5
    ELSE IF m >= 2039 THEN 4
    ELSE IF m >= 1019 THEN 3
    ELSE IF m >= 509 THEN 2
    ELSE IF m >= 254 THEN 1
    ELSE 0

mantissa_shl(m, sg) ==
    IF sg >= 1 THEN BitAnd(Shr(m, sg + 3), 15) ELSE Shl(m, 4)
\* if seg >= 1: sample = (sample >> (seg + 3)) & 0x0F  else: sample >> 4
mantissa(m, sg) ==
    IF sg >= 1 THEN BitAnd(Shr(m, sg + 3), 15) ELSE Shr(m, 4)

linear_to_alaw(s) ==
    LET c == clamp(s)
        sgn == sign(c)
        m == magnitude(c)
    IN  IF m >= 32635 THEN BitOr(sgn, 127)
        ELSE BitOr(BitOr(sgn, Shl(seg(m), 4)), mantissa(m, seg(m)))

(***************************************************************************)
(* SpecEnc: one call of linear_to_alaw.                                    *)
(***************************************************************************)
EncInputs == (-32768 - MaxOver) .. (32767 + MaxOver)

NoFile == [exists |-> FALSE, bytes |-> <<>>]

InitEnc ==
    /\ pc = "call"
    /\ sample \in EncInputs
    /\ alaw_sample = -1
    /\ audio_16bit = <<>>
    /\ idx = 1
    /\ alaw_data = <<>>
    /\ sample_rate = 8000
    /\ num_samples = 0
    /\ header = <<>>
    /\ disk0 = NoFile
    /\ disk = NoFile
    /\ f = "none"

Encode ==
    /\ pc = "call"
    /\ alaw_sample' = linear_to_alaw(sample)
    /\ pc' = "ret"
    /\ UNCHANGED <<audio_16bit, idx, sample, alaw_data, sample_rate,
                   num_samples, header, disk0, disk, f>>

NextEnc == Encode

SpecEnc == InitEnc /\ [][NextEnc]_vars

(***************************************************************************)
(* create_alaw_wav_header                                                  *)
(***************************************************************************)
\* b'RIFF', b'WAVE', b'fmt ', b'data'
RIFF == <<82, 73, 70, 70>>
WAVE == <<87, 65, 86, 69>>
FMT_ == <<102, 109, 116, 32>>
DATA == <<100, 97, 116, 97>>

\* struct.pack('<I', v) raises struct.error unless 0 <= v <= 2^32 - 1; the
\* integers of the model stay below 2^31, so only the lower limit shows
pack_I_ok(v) == v >= 0

\* struct.pack('<I', v): four bytes, least significant first
pack_I(v) ==
    <<v % 256, (v \div 256) % 256, (v \div 65536) % 256,
      (v \div 16777216) % 256>>

\* struct.pack('<H', v): two bytes, least significant first
pack_H(v) == <<v % 256, (v \div 256) % 256>>

\* the header with the format chunk of the PCM variant (size 16)
header_fmt16(sr, n) ==
    RIFF \o pack_I(36 + n) \o WAVE
    \o FMT_ \o pack_I(16) \o pack_H(6) \o pack_H(1)
    \o pack_I(sr) \o pack_I(sr) \o pack_H(1) \o pack_H(8) \o pack_H(0)
    \o DATA \o pack_I(n)

\* the header without the extra-format-bytes field
header_noextra(sr, n) ==
    RIFF \o pack_I(36 + n) \o WAVE
    \o FMT_ \o pack_I(18) \o pack_H(6) \o pack_H(1)
    \o pack_I(sr) \o pack_I(sr) \o pack_H(1) \o pack_H(8)
    \o DATA \o pack_I(n)

\* the header with the two size fields exchanged
header_swapped(sr, n) ==
    RIFF \o pack_I(n) \o WAVE
    \o FMT_ \o pack_I(18) \o pack_H(6) \o pack_H(1)
    \o pack_I(sr) \o pack_I(sr) \o pack_H(1) \o pack_H(8) \o pack_H(0)
    \o DATA \o pack_I(36 + n)

\* the bytearray the function returns when no pack raises
create_alaw_wav_header(sr, n) ==
    RIFF \o pack_I(36 + n) \o WAVE
    \o FMT_ \o pack_I(18) \o pack_H(6) \o pack_H(1)
    \o pack_I(sr) \o pack_I(sr) \o pack_H(1) \o pack_H(8) \o pack_H(0)
    \o DATA \o pack_I(n)

\* one of the three packs of an argument raises
header_raises(sr, n) ==
    ~pack_I_ok(36 + n) \/ ~pack_I_ok(sr) \/ ~pack_I_ok(n)

(***************************************************************************)
(* SpecHdr: one call of create_alaw_wav_header.                            *)
(***************************************************************************)
BoundaryLens == {-37, -1, 255, 256, 65535, 65536, 16777215, 16777216,
                 2147483583}
Lengths == (0 .. MaxLen) \cup BoundaryLens
Rates == {-1, 0, 1, 8000, 11025, 44100, 65536, 16777216, 2147483647}

InitHdr ==
    /\ pc = "call"
    /\ sample_rate \in Rates
    /\ num_samples \in Lengths
    /\ header = <<>>
    /\ sample = 0
    /\ alaw_sample = -1
    /\ audio_16bit = <<>>
    /\ idx = 1
    /\ alaw_data = <<>>
    /\ disk0 = NoFile
    /\ disk = NoFile
    /\ f = "none"

HeaderReturn ==
    /\ pc = "call"
    /\ ~header_raises(sample_rate, num_samples)
    /\ header' = create_alaw_wav_header(sample_rate, num_samples)
    /\ pc' = "ret"
    /\ UNCHANGED <<audio_16bit, idx, sample, alaw_sample, alaw_data,
                   sample_rate, num_samples, disk0, disk, f>>

HeaderRaise ==
    /\ pc = "call"
    /\ header_raises(sample_rate, num_samples)
    /\ pc' = "raised"
    /\ UNCHANGED <<audio_16bit, idx, sample, alaw_sample, alaw_data,
                   sample_rate, num_samples, header, disk0, disk, f>>

NextHdr == HeaderReturn \/ HeaderRaise

SpecHdr == InitHdr /\ [][NextHdr]_vars

(***************************************************************************)
(* Spec: one generation call (create_clean_alaw_wav and                    *)
(* create_speech_like_alaw_wav run the same statements from the encoding   *)
(* loop on), given the int16 array the synthesis produced.                 *)
(***************************************************************************)
SampleValues == {-32768, -1, 0, 256, 32767}

ZeroStream == [i \in 1 .. ScenarioLen |-> 0]

Streams ==
    UNION {[1 .. n -> SampleValues] : n \in 0 .. MaxSamples}
    \cup {ZeroStream}

\* a file some earlier run left at the destination
OldFile == [exists |-> TRUE, bytes |-> <<79, 76, 68>>]

Init ==
    /\ pc = "loop"
    /\ audio_16bit \in Streams
    /\ idx = 1
    /\ sample = 0
    /\ alaw_sample = -1
    /\ alaw_data = <<>>
    /\ sample_rate = 8000
    /\ num_samples = 0
    /\ header = <<>>
    /\ disk0 \in {NoFile, OldFile}
    /\ disk = disk0
    /\ f = "none"

\* for sample in audio_16bit: alaw_data.append(linear_to_alaw(sample))
ForSample ==
    /\ pc = "loop"
    /\ idx <= Len(audio_16bit)
    /\ sample' = audio_16bit[idx]
    /\ alaw_sample' = linear_to_alaw(audio_16bit[idx])
    /\ alaw_data' = Append(alaw_data, linear_to_alaw(audio_16bit[idx]))
    /\ idx' = idx + 1
    /\ UNCHANGED <<pc, audio_16bit, sample_rate, num_samples, header,
                   disk0, disk, f>>

\* the loop is exhausted: header = create_alaw_wav_header(sample_rate,
\* len(alaw_data)); with 8000 and a length no pack raises
MakeHeader ==
    /\ pc = "loop"
    /\ idx > Len(audio_16bit)
    /\ num_samples' = Len(alaw_data)
    /\ header' = create_alaw_wav_header(sample_rate, Len(alaw_data))
    /\ pc' = "open"
    /\ UNCHANGED <<audio_16bit, idx, sample, alaw_sample, alaw_data,
                   sample_rate, disk0, disk, f>>

\* open(filename, 'wb') creates the file or truncates it to length 0
OpenOk ==
    /\ pc = "open"
    /\ disk' = [exists |-> TRUE, bytes |-> <<>>]
    /\ f' = "open"
    /\ pc' = "write_header"
    /\ UNCHANGED <<audio_16bit, idx, sample, alaw_sample, alaw_data,
                   sample_rate, num_samples, header, disk0>>

\* open raises (permission denied, ...): nothing is created, the error
\* leaves the function
OpenFail ==
    /\ pc = "open"
    /\ pc' = "raised"
    /\ UNCHANGED <<audio_16bit, idx, sample, alaw_sample, alaw_data,
                   sample_rate, num_samples, header, disk0, disk, f>>

\* f.write(header)
WriteHeaderOk ==
    /\ pc = "write_header"
    /\ disk' = [disk EXCEPT !.bytes = @ \o header]
    /\ pc' = "write_data"
    /\ UNCHANGED <<audio_16bit, idx, sample, alaw_sample, alaw_data,
                   sample_rate, num_samples, header, disk0, f>>

\* the write fails after k < len(header) bytes reached the file; the with
\* statement closes f and the error leaves the function
WriteHeaderFail ==
    /\ pc = "write_header"
    /\ \E k \in 0 .. (Len(header) - 1) :
         disk' = [disk EXCEPT !.bytes = @ \o SubSeq(header, 1, k)]
    /\ f' = "closed"
    /\ pc' = "raised"
    /\ UNCHANGED <<audio_16bit, idx, sample, alaw_sample, alaw_data,
                   sample_rate, num_samples, header, disk0>>

\* f.write(alaw_data)
WriteDataOk ==
    /\ pc = "write_data"
    /\ disk' = [disk EXCEPT !.bytes = @ \o alaw_data]
    /\ pc' = "exit_with"
    /\ UNCHANGED <<audio_16bit, idx, sample, alaw_sample, alaw_data,
                   sample_rate, num_samples, header, disk0, f>>

\* the write fails after k < len(alaw_data) bytes reached the file
WriteDataFail ==
    /\ pc = "write_data"
    /\ \E k \in 0 .. (Len(alaw_data) - 1) :
         disk' = [disk EXCEPT !.bytes = @ \o SubSeq(alaw_data, 1, k)]
    /\ f' = "closed"
    /\ pc' = "raised"
    /\ UNCHANGED <<audio_16bit, idx, sample, alaw_sample, alaw_data,
                   sample_rate, num_samples, header, disk0>>

\* the with block ends: f is closed, the function prints and returns
ExitWith ==
    /\ pc = "exit_with"
    /\ f' = "closed"
    /\ pc' = "done"
    /\ UNCHANGED <<audio_16bit, idx, sample, alaw_sample, alaw_data,
                   sample_rate, num_samples, header, disk0, disk>>

Next ==
    \/ ForSample
    \/ MakeHeader
    \/ OpenOk
    \/ OpenFail
    \/ WriteHeaderOk
    \/ WriteHeaderFail
    \/ WriteDataOk
    \/ WriteDataFail
    \/ ExitWith

Spec == Init /\ [][Next]_vars

(***************************************************************************)
(* Readers used to state the properties: a RIFF parser's view of bytes.    *)
(***************************************************************************)
\* the unsigned 32-bit little-endian integer at byte offset off of b
U32(b, off) ==
    b[off + 1] + 256 * b[off + 2] + 65536 * b[off + 3]
    + 16777216 * b[off + 4]

\* the unsigned 16-bit little-endian integer at byte offset off of b
U16(b, off) == b[off + 1] + 256 * b[off + 2]

\* the n bytes at byte offset off of b
Bytes(b, off, n) == SubSeq(b, off + 1, off + n)

AllZero(s) == \A i \in 1 .. Len(s) : s[i] = 0

(***************************************************************************)
(* The table-driven reference encoder of the design document.              *)
(***************************************************************************)
threshold == <<0, 254, 509, 1019, 2039, 4079, 8159, 16318>>

\* the highest k in 0..7 with m >= threshold[k]
RefSeg(m) ==
    CHOOSE k \in 0 .. 7 :
        /\ m >= threshold[k + 1]
        /\ \A j \in 0 .. 7 : m >= threshold[j + 1] => j <= k

RefMantissa(m, k) ==
    IF k >= 1 THEN (m \div Pow2(k + 3)) % 16 ELSE m \div 16

RefSign(s) == IF s < 0 THEN 128 ELSE 0

Abs(x) == IF x < 0 THEN -x ELSE x

(***************************************************************************)
(* Properties                                                              *)
(***************************************************************************)

\* C1: for every sample rate and every payload length L >= 0 the RIFF
\* chunk-size field at offset 4 of the returned header is 38 + L, the length
\* of the complete file minus 8.  (SpecHdr)
C1_RiffChunkSize ==
    (pc = "ret" /\ num_samples >= 0) =>
        /\ U32(header, 4) = 38 + num_samples
        /\ U32(header, 4) = (Len(header) + num_samples) - 8

\* C2 as stated: the file a generation call produces is 38 + n bytes long
\* for n samples, 2038 bytes for 2000 samples.  (Spec)
C2_FileLength38 ==
    pc = "done" =>
        /\ Len(disk.bytes) = 38 + Len(audio_16bit)
        /\ (Len(audio_16bit) = 2000 => Len(disk.bytes) = 2038)

\* C2 amended: the file a generation call produces is 46 + n bytes long for
\* n samples (a 46-byte header followed by one byte per sample), 2046 bytes
\* for 2000 samples.  (Spec)
C2_FileLength46 ==
    pc = "done" =>
        /\ disk.exists
        /\ Len(disk.bytes) = 46 + Len(audio_16bit)
        /\ (Len(audio_16bit) = 2000 => Len(disk.bytes) = 2046)

C2_Witness ==
    /\ pc = "done"
    /\ Len(audio_16bit) = 2000
    /\ Len(disk.bytes) = 2046

\* C3: linear_to_alaw is monotone on non-negative inputs: for
\* 0 <= x1 < x2 <= 32767, linear_to_alaw(x1) <= linear_to_alaw(x2).
\* (SpecEnc; x2 is the argument of the call)
C3_Monotone ==
    (pc = "ret" /\ sample >= 0 /\ sample <= 32767) =>
        \A x1 \in 0 .. (sample - 1) : linear_to_alaw(x1) <= alaw_sample

\* C4: in the file a generation call produces, the data-chunk size field
\* (the last four header bytes, right after "data") equals the number of
\* payload bytes written after the header and the number of input samples.
\* (Spec)
C4_DataSizeIsPayloadLength ==
    pc = "done" =>
        LET h == Len(header)
            b == disk.bytes
        IN  /\ Len(b) >= h
            /\ Bytes(b, 0, h) = header
            /\ Bytes(b, h - 8, 4) = DATA
            /\ U32(b, h - 4) = Len(b) - h
            /\ U32(b, h - 4) = Len(audio_16bit)
            /\ Bytes(b, h, Len(b) - h) = alaw_data

C4_Witness ==
    /\ pc = "done"
    /\ Len(audio_16bit) = MaxSamples
    /\ U32(disk.bytes, 42) = MaxSamples
    /\ Len(disk.bytes) = 46 + MaxSamples

\* C5: for 1 <= |x| <= 32767 the codes of x and -x differ in exactly the
\* sign bit, linear_to_alaw(-x) = linear_to_alaw(x) XOR 0x80, and so do the
\* codes of -32768 and of the clamped input 32768.  (SpecEnc)
C5_SignSymmetry ==
    pc = "ret" =>
        /\ (1 <= Abs(sample) /\ Abs(sample) <= 32767) =>
               linear_to_alaw(-sample) = BitXor(alaw_sample, 128)
        /\ sample = -32768 =>
               alaw_sample = BitXor(linear_to_alaw(32768), 128)

C5_Witness ==
    /\ pc = "ret"
    /\ sample = -1000
    /\ alaw_sample = 128 + 47
    /\ linear_to_alaw(1000) = 47

\* C6: linear_to_alaw returns a value in 0..255 for every integer sample,
\* in the int16 range or clamped to it.  (SpecEnc)
C6_ByteRange ==
    pc = "ret" => (alaw_sample \in 0 .. 255)

C6_Witness ==
    /\ pc = "ret"
    /\ sample < -32768
    /\ alaw_sample = 255

\* C7: linear_to_alaw(0) is 0x00, and for a stream of zero-valued samples
\* of any length n every payload byte the encoding loop produces is that
\* code, n bytes in all.  (Spec)
C7_ZeroStream ==
    /\ linear_to_alaw(0) = 0
    /\ AllZero(audio_16bit) =>
           /\ AllZero(alaw_data)
           /\ Len(alaw_data) = idx - 1
           /\ (pc # "loop" => Len(alaw_data) = Len(audio_16bit))

C7_Witness ==
    /\ pc = "done"
    /\ Len(audio_16bit) = 2000
    /\ AllZero(audio_16bit)
    /\ Len(alaw_data) = 2000
    /\ AllZero(alaw_data)

\* C8: the returned header has the fixed little-endian layout: "RIFF" at 0,
\* "WAVE" at 8, "fmt " at 12, format-chunk size 18 at 16, format code 6 at
\* 20, channels 1 at 22, the sample rate at 24, the byte rate
\* sample_rate * 1 at 28, block align 1 at 32, bits per sample 8 at 34,
\* extra format bytes 0 at 36, "data" at 38, the data size at 42; its length
\* is the same for every sample rate and payload length.  (SpecHdr)
C8_HeaderLayout ==
    pc = "ret" =>
        /\ Len(header) = 46
        /\ \A i \in 1 .. Len(header) : header[i] \in 0 .. 255
        /\ Bytes(header, 0, 4) = RIFF
        /\ Bytes(header, 8, 4) = WAVE
        /\ Bytes(header, 12, 4) = FMT_
        /\ U32(header, 16) = 18
        /\ U16(header, 20) = 6
        /\ U16(header, 22) = 1
        /\ U32(header, 24) = sample_rate
        /\ U32(header, 28) = sample_rate * U16(header, 32)
        /\ U16(header, 32) = 1
        /\ U16(header, 34) = 8
        /\ U16(header, 36) = 0
        /\ Bytes(header, 38, 4) = DATA
        /\ U32(header, 42) = num_samples

C8_Witness ==
    /\ pc = "ret"
    /\ sample_rate = 44100
    /\ num_samples = 65536
    /\ Len(header) = 46
    /\ U32(header, 24) = 44100

\* C9: for every magnitude m in 0..32767 the cascade agrees with the
\* table-driven reference: sign | 0x7F when m >= 32635; otherwise seg is
\* the highest k with m >= threshold[k], the mantissa is
\* (m >> (seg + 3)) & 0x0F for seg >= 1 and m >> 4 (at most 15) for seg 0,
\* the result is sign | (seg << 4) | mantissa, bits 6-4 of the result are
\* seg and bits 3-0 the mantissa.  (SpecEnc)
C9_MatchesReference ==
    (pc = "ret" /\ Abs(clamp(sample)) <= 32767) =>
        LET m == Abs(clamp(sample))
            k == RefSeg(m)
            q == RefMantissa(m, k)
        IN  IF m >= 32635
            THEN alaw_sample = RefSign(sample) + 127
            ELSE /\ q <= 15
                 /\ alaw_sample = RefSign(sample) + 16 * k + q
                 /\ (alaw_sample \div 16) % 8 = k
                 /\ alaw_sample % 16 = q

C9_Witness ==
    /\ pc = "ret"
    /\ sample = 1019
    /\ alaw_sample = 48 + 15

\* C10: when a step of the generation call fails the error leaves the
\* function, the file handle is closed, and the destination holds either
\* the complete header and payload or what it held before the call: no
\* empty, header-only or truncated file is left.  (Spec)
C10_NoPartialFile ==
    pc \in {"raised", "done"} =>
        /\ f # "open"
        /\ \/ disk = disk0
           \/ disk.exists /\ disk.bytes = header \o alaw_data

====
